---- MODULE Spec2Model ----
(***************************************************************************)
(* rmtree.py: the RapidMiner decision tree transducer.                     *)
(*                                                                         *)
(* A model of the Tree class (branches dict, parent link, name), of        *)
(* parse_rmtree (one step per input line) and of the serializers.          *)
(* Strings are sequences of one-character strings, so that the regular     *)
(* expression, strip(), the % templates and the slices [:-1] and [:-2]     *)
(* are computed character by character, as the code computes them.         *)
(***************************************************************************)
EXTENDS Integers, Sequences, FiniteSets, TLC

(***************************************************************************)
(* Bounds of the model.                                                    *)
(***************************************************************************)
\* longest input (number of lines of the file) that is enumerated
MaxLines == 3
\* number of Tree.__setitem__ calls the hand-building caller makes
MaxSets == 2

(***************************************************************************)
(* Input lines, as fh.readlines() returns them (the newline is kept).      *)
(***************************************************************************)
LineLeaf0 == <<"n", " ", "=", " ", "a", ":", " ", "y", " ", "{", "}", "\n">>
LineSub0 == <<"n", " ", "=", " ", "a", "\n">>
LineSub1 == <<"|", " ", " ", " ", "m", " ", "=", " ", "b", "\n">>
LineLeaf2 == <<"|", " ", " ", " ", "|", " ", " ", " ", "k", " ", "=", " ", "a", ":", " ", "y", " ", "{", "}">>
LineBad == <<"n", "\n">>
LineEx1 == <<"r", "o", "o", "t", " ", "=", " ", "a", " ", "{", "\n">>
LineEx2 == <<"|", " ", " ", " ", "r", "o", "o", "t", " ", "=", " ", "b", ":", " ", "n", "o", " ", "{", "}", "\n">>

LineSet == {LineLeaf0, LineSub0, LineSub1, LineLeaf2, LineBad, LineEx1, LineEx2}

RECURSIVE SeqsUpTo(_, _)
SeqsUpTo(S, n) ==
    IF n = 0 THEN {<<>>}
    ELSE LET shorter == SeqsUpTo(S, n - 1)
         IN  shorter \cup {Append(q, x) : q \in {r \in shorter : Len(r) = n - 1}, x \in S}

\* every line but the last ends with its newline
Inputs ==
    {q \in SeqsUpTo(LineSet, MaxLines) :
        \A k \in 1..(Len(q) - 1) : q[k][Len(q[k])] = "\n"}

(***************************************************************************)
(* Python values.  Every value is a record of the same four fields:        *)
(*   t = "tree": the Tree object number n of the heap                      *)
(*   t = "str" : the string object number o with the characters s          *)
(*   t = "none": None            t = "int": a number (an unsupported type) *)
(***************************************************************************)
None == [t |-> "none", n |-> 0, s |-> <<>>, o |-> 0]
TreeRef(k) == [t |-> "tree", n |-> k, s |-> <<>>, o |-> 0]
StrObj(chars, obj) == [t |-> "str", n |-> 0, s |-> chars, o |-> obj]
IntObj(v) == [t |-> "int", n |-> v, s |-> <<>>, o |-> 0]

(***************************************************************************)
(* str.strip() and str.count()                                             *)
(***************************************************************************)
IsSpace(c) == c \in {" ", "\t", "\n"}

RECURSIVE LStrip(_)
LStrip(s) == IF s # <<>> /\ IsSpace(Head(s)) THEN LStrip(Tail(s)) ELSE s

RECURSIVE RStrip(_)
RStrip(s) ==
    IF s # <<>> /\ IsSpace(s[Len(s)]) THEN RStrip(SubSeq(s, 1, Len(s) - 1)) ELSE s

\* lstrip() in the place of strip()
StripLeftOnly(s) == LStrip(s)

Strip(s) == RStrip(LStrip(s))

RECURSIVE Count(_, _)
Count(s, c) ==
    IF s = <<>> THEN 0 ELSE (IF Head(s) = c THEN 1 ELSE 0) + Count(Tail(s), c)

(***************************************************************************)
(* re_line, the pattern of parse_rmtree, anchored at the start:            *)
(*   indent : zero or more units, each a "|" and three whitespace          *)
(*   node   : one or more characters other than "="                        *)
(*   " = "                                                                 *)
(*   branch : one or more characters other than ":"                        *)
(*   optionally ": ", leaf (one or more characters other than "{"), " {"   *)
(* matched as the backtracking engine matches it: every quantifier takes   *)
(* as much as it can and gives back only what the rest needs.              *)
(***************************************************************************)
\* the first position >= p of s that holds c, Len(s) + 1 if there is none
RECURSIVE Find(_, _, _)
Find(s, p, c) ==
    IF p > Len(s) THEN Len(s) + 1
    ELSE IF s[p] = c THEN p ELSE Find(s, p + 1, c)

\* the indent unit (a pipe, three whitespace) at the k-th place (k = 0, 1, ...)
IndentUnitAt(s, k) ==
    /\ 4 * k + 4 <= Len(s)
    /\ s[4 * k + 1] = "|"
    /\ \A j \in 2..4 : IsSpace(s[4 * k + j])

\* the number of units the indent group takes when it takes all it can
RECURSIVE MaxIndentUnits(_, _)
MaxIndentUnits(s, k) ==
    IF IndentUnitAt(s, k) THEN MaxIndentUnits(s, k + 1) ELSE k

NoMatch == [ok |-> FALSE, indent |-> <<>>, node |-> <<>>, branch |-> <<>>,
            hasLeaf |-> FALSE, leaf |-> <<>>]

\* the optional leaf group at position p
LeafGroup(s, p) ==
    LET brace == Find(s, p + 2, "{")
    IN  IF /\ p + 1 <= Len(s)
           /\ s[p] = ":"
           /\ s[p + 1] = " "
           /\ brace <= Len(s)
           /\ brace >= p + 4
           /\ s[brace - 1] = " "
        THEN [hasLeaf |-> TRUE, leaf |-> SubSeq(s, p + 2, brace - 2)]
        ELSE [hasLeaf |-> FALSE, leaf |-> <<>>]

\* node, " = ", branch and the optional leaf group from position start on
MatchFrom(s, start) ==
    LET eq == Find(s, start, "=")
        colon == Find(s, eq + 2, ":")
    IN  IF /\ eq + 2 <= Len(s)
           /\ eq >= start + 2
           /\ s[eq - 1] = " "
           /\ s[eq + 1] = " "
           /\ s[eq + 2] # ":"
        THEN LET g == LeafGroup(s, colon)
             IN  [ok |-> TRUE, indent |-> SubSeq(s, 1, start - 1),
                  node |-> SubSeq(s, start, eq - 2),
                  branch |-> SubSeq(s, eq + 2, colon - 1),
                  hasLeaf |-> g.hasLeaf, leaf |-> g.leaf]
        ELSE NoMatch

\* the indent group gives units back until the rest of the pattern matches
RECURSIVE MatchWithIndent(_, _)
MatchWithIndent(s, k) ==
    LET m == MatchFrom(s, 4 * k + 1)
    IN  IF m.ok \/ k = 0 THEN m ELSE MatchWithIndent(s, k - 1)

re_line(s) == MatchWithIndent(s, MaxIndentUnits(s, 0))

(***************************************************************************)
(* class Tree.  The heap is the sequence of the Tree objects in the order  *)
(* of their creation; a Tree object holds its name, its parent (None or a  *)
(* Tree) and its branches.  The branches dict is the sequence of its       *)
(* entries in iteration order: a dict of this Python iterates in an order  *)
(* the hashes decide, so a new key enters at a place the caller of DictSet *)
(* does not control (pos), and an existing key keeps its place and its key *)
(* object.                                                                 *)
(***************************************************************************)
\* Tree.__init__ with the default arguments
NewTree == [name |-> <<>>, parent |-> None, branches |-> <<>>]

\* the place of the entry whose key equals key, 0 if there is none
RECURSIVE KeyIndex(_, _, _)
KeyIndex(d, key, k) ==
    IF k > Len(d) THEN 0
    ELSE IF d[k].key.s = key.s THEN k ELSE KeyIndex(d, key, k + 1)

\* self.__branches[key] = value
DictSet(d, key, value, pos) ==
    LET k == KeyIndex(d, key, 1)
    IN  IF k > 0 THEN [d EXCEPT ![k].value = value]
        ELSE LET place == IF pos > Len(d) THEN Len(d) + 1 ELSE pos
             IN  SubSeq(d, 1, place - 1) \o <<[key |-> key, value |-> value]>>
                     \o SubSeq(d, place, Len(d))

\* Tree.__getitem__
getitem(heap, self, key) ==
    LET k == KeyIndex(heap[self].branches, key, 1)
    IN  IF k > 0 THEN heap[self].branches[k].value ELSE None

\* Tree.__contains__
contains(heap, self, key) == KeyIndex(heap[self].branches, key, 1) > 0

\* Tree.get_parent
get_parent(heap, self) == heap[self].parent

\* Tree.set_parent
set_parent(heap, self, parent) == [heap EXCEPT ![self].parent = parent]

\* Tree.get_root
RECURSIVE get_root(_, _)
get_root(heap, self) ==
    IF get_parent(heap, self) # None
    THEN get_root(heap, get_parent(heap, self).n)
    ELSE TreeRef(self)

\* __setitem__ that gives every subtree the root of self as its parent
setitem_parent_is_root(heap, self, key, value, pos) ==
    LET top == get_root(heap, self)
    IN  IF value.t = "tree"
        THEN LET h == set_parent(heap, value.n, top)
             IN  [heap |-> [h EXCEPT ![self].branches = DictSet(@, key, value, pos)],
                  err |-> ""]
        ELSE IF value.t # "str"
        THEN [heap |-> heap, err |-> "TypeError"]
        ELSE [heap |-> [heap EXCEPT ![self].branches = DictSet(@, key, value, pos)],
              err |-> ""]

\* __setitem__ that stores the value before it looks at its type
setitem_stores_first(heap, self, key, value, pos) ==
    LET h == [heap EXCEPT ![self].branches = DictSet(@, key, value, pos)]
    IN  IF value.t = "tree" THEN [heap |-> set_parent(h, value.n, TreeRef(self)), err |-> ""]
        ELSE IF value.t # "str" THEN [heap |-> h, err |-> "TypeError"]
        ELSE [heap |-> h, err |-> ""]

\* Tree.__setitem__: the heap after the call and the exception it raised
setitem(heap, self, key, value, pos) ==
    IF value.t = "tree"
    THEN LET h == set_parent(heap, value.n, TreeRef(self))
         IN  [heap |-> [h EXCEPT ![self].branches = DictSet(@, key, value, pos)],
              err |-> ""]
    ELSE IF value.t # "str"
    THEN [heap |-> heap, err |-> "TypeError"]
    ELSE [heap |-> [heap EXCEPT ![self].branches = DictSet(@, key, value, pos)],
          err |-> ""]

(***************************************************************************)
(* parse_rmtree.  The string objects that the groups of line k give are    *)
(* new objects: the branch is object 2k - 1 and the leaf object 2k.        *)
(***************************************************************************)
BranchObj(m, k) == StrObj(m.branch, 2 * k - 1)
LeafObj(m, k) == StrObj(m.leaf, 2 * k)

\* a walk up the tree that stops at the root
RECURSIVE AscendClamped(_, _, _)
AscendClamped(heap, t, k) ==
    IF k <= 0 THEN [tree |-> t, err |-> ""]
    ELSE IF t.t # "tree" THEN [tree |-> t, err |-> "AttributeError"]
    ELSE IF get_parent(heap, t.n) = None THEN [tree |-> t, err |-> ""]
    ELSE AscendClamped(heap, get_parent(heap, t.n), k - 1)

\* for i in range(depth - level): tree = tree.get_parent()
RECURSIVE Ascend(_, _, _)
Ascend(heap, t, k) ==
    IF k <= 0 THEN [tree |-> t, err |-> ""]
    ELSE IF t.t # "tree" THEN [tree |-> t, err |-> "AttributeError"]
    ELSE Ascend(heap, get_parent(heap, t.n), k - 1)

\* the level of indent of a matched line
Level(m) == Count(m.indent, "|")

\* a line that re_line does not match is skipped
MalformedLineSkipped(p) == [p EXCEPT !.i = p.i + 1]

\* a line that re_line does not match
MalformedLine(p) == [p EXCEPT !.pc = "raised", !.err = "ValueError"]

\* the branch of the loop body that attaches a leaf
AddLeaf(p, heap, t, m, k, pos) ==
    [p EXCEPT !.heap = setitem(heap, t.n, BranchObj(m, k), LeafObj(m, k), pos).heap,
              !.tree = t]

\* a subtree is entered without a look at the branches: always a new Tree
EnterSubtreeAlwaysNew(p, heap, t, m, k, pos) ==
    LET h == setitem(Append(heap, NewTree), t.n, BranchObj(m, k),
                     TreeRef(Len(heap) + 1), pos).heap
    IN  [p EXCEPT !.heap = h, !.tree = getitem(h, t.n, BranchObj(m, k))]

\* the subtree is attached but the working pointer stays where it is
EnterSubtreeStays(p, heap, t, m, k, pos) ==
    LET h == IF ~contains(heap, t.n, BranchObj(m, k))
             THEN setitem(Append(heap, NewTree), t.n, BranchObj(m, k),
                          TreeRef(Len(heap) + 1), pos).heap
             ELSE heap
    IN  [p EXCEPT !.heap = h, !.tree = t]

\* the branch of the loop body that enters a subtree
EnterSubtree(p, heap, t, m, k, pos) ==
    LET h == IF ~contains(heap, t.n, BranchObj(m, k))
             THEN setitem(Append(heap, NewTree), t.n, BranchObj(m, k),
                          TreeRef(Len(heap) + 1), pos).heap
             ELSE heap
    IN  [p EXCEPT !.heap = h, !.tree = getitem(h, t.n, BranchObj(m, k))]

\* the working pointer is left where the line before put it
WorkingNodeStays(p, m) == [tree |-> p.tree, err |-> ""]

\* if level < depth: the working pointer after the walk up the tree
WorkingNode(p, m) ==
    IF Level(m) < p.depth
    THEN Ascend(p.heap, p.tree, p.depth - Level(m))
    ELSE [tree |-> p.tree, err |-> ""]

\* one iteration of the loop over fh.readlines(), on line k.  p holds the
\* locals depth and tree, the heap and how the call stands (pc, err).
parse_line(p, line, k, pos) ==
    LET m == re_line(Strip(line))
    IN  IF ~m.ok THEN MalformedLine(p)
        ELSE LET up == WorkingNode(p, m)
             IN  IF up.err # "" \/ up.tree.t # "tree"
                 THEN [p EXCEPT !.pc = "raised", !.err = "AttributeError"]
                 ELSE LET named == [p.heap EXCEPT ![up.tree.n].name = m.node]
                          q == IF m.hasLeaf
                               THEN AddLeaf(p, named, up.tree, m, k, pos)
                               ELSE EnterSubtree(p, named, up.tree, m, k, pos)
                      IN  [q EXCEPT !.depth = Level(m), !.i = k]

\* return tree
parse_return_working(p) ==
    IF p.tree.t # "tree"
    THEN [p EXCEPT !.pc = "raised", !.err = "AttributeError"]
    ELSE [p EXCEPT !.pc = "returned", !.result = p.tree]

\* return tree.get_root()
parse_return(p) ==
    IF p.tree.t # "tree"
    THEN [p EXCEPT !.pc = "raised", !.err = "AttributeError"]
    ELSE [p EXCEPT !.pc = "returned", !.result = get_root(p.heap, p.tree.n)]

(***************************************************************************)
(* The serializers.  id(x) is the address of the object x: two objects     *)
(* that live at the same time have different addresses, one object has one *)
(* address.  Tree object n is given the address 2n and string object o the *)
(* address 2o + 1.                                                         *)
(***************************************************************************)
id(v) == IF v.t = "tree" THEN 2 * v.n ELSE 2 * v.o + 1

Digits == <<"0", "1", "2", "3", "4", "5", "6", "7", "8", "9">>

\* '%d' % n
RECURSIVE FormatD(_)
FormatD(n) ==
    IF n < 10 THEN <<Digits[n + 1]>>
    ELSE FormatD(n \div 10) \o <<Digits[(n % 10) + 1]>>

Root == <<"R", "o", "o", "t">>
TplJit1 == <<"{", "\"", "i", "d", "\"", ":", " ">>
TplJit2 == <<",", " ", "\"", "n", "a", "m", "e", "\"", ":", " ", "\"">>
TplD31 == <<"{", "\"", "n", "a", "m", "e", "\"", ":", " ", "\"">>
TplTail == <<"\"", ",", " ", "\"", "c", "h", "i", "l", "d", "r", "e", "n", "\"", ":", " ", "[">>
ChildrenWord == <<"\"", "c", "h", "i", "l", "d", "r", "e", "n", "\"">>
SizeWord == <<"\"", "s", "i", "z", "e", "\"", ":", " ">>

\* templates.keys()
Styles == {"jit", "d3"}

\* json_template % (id(x), name) for 'jit', json_template % name for 'd3'
Template(style, x, name) ==
    IF style = "jit"
    THEN TplJit1 \o FormatD(id(x)) \o TplJit2 \o name \o TplTail
    ELSE TplD31 \o name \o TplTail

RECURSIVE SkipSpace(_, _)
SkipSpace(s, p) == IF p <= Len(s) /\ IsSpace(s[p]) THEN SkipSpace(s, p + 1) ELSE p

\* the word w stands at position p of s
HasAt(s, p, w) == p + Len(w) - 1 <= Len(s) /\ SubSeq(s, p, p + Len(w) - 1) = w

\* where a match of "children", whitespace, a colon, whitespace, [] that
\* starts at p ends (the position after it), 0 if none starts at p
ChildrenEmptyAt(s, p) ==
    IF ~HasAt(s, p, ChildrenWord) THEN 0
    ELSE LET c == SkipSpace(s, p + Len(ChildrenWord))
         IN  IF ~HasAt(s, c, <<":">>) THEN 0
             ELSE LET b == SkipSpace(s, c + 1)
                  IN  IF HasAt(s, b, <<"[", "]">>) THEN b + 2 ELSE 0

\* the leftmost position >= p where a match starts, 0 if there is none
NextChildrenEmpty(s, p) ==
    LET starts == {q \in p..Len(s) : ChildrenEmptyAt(s, q) > 0}
    IN  IF starts = {} THEN 0 ELSE CHOOSE q \in starts : \A r \in starts : q <= r

\* re.sub of that pattern by repl, from position p on: the matches are
\* replaced from left to right, the text between them is kept
RECURSIVE re_sub(_, _, _)
re_sub(s, repl, p) ==
    LET q == NextChildrenEmpty(s, p)
    IN  IF q = 0 THEN SubSeq(s, p, Len(s))
        ELSE SubSeq(s, p, q - 1) \o repl \o re_sub(s, repl, ChildrenEmptyAt(s, q))

\* s[:-k]
DropLast(s, k) == SubSeq(s, 1, Len(s) - k)

\* Tree.json: the exception raised, the string returned and the number of
\* branches visited.  tmp[n] is id(json) in the call on Tree object n: the
\* address of a string that lives only during that call.
RECURSIVE json(_, _, _, _, _)
RECURSIVE json_loop(_, _, _, _, _, _)
json_loop(heap, self, style, indent, tmp, k) ==
    IF k > Len(heap[self].branches) THEN [text |-> <<>>, visits |-> 0]
    ELSE LET e == heap[self].branches[k]
             node == Template(style, e.key, heap[self].name \o <<":", " ">> \o e.key.s)
             value == IF e.value.t = "tree"
                      THEN json(heap, e.value.n, style, indent + 1, tmp)
                      ELSE [text |-> Template(style, e.value, e.value.s) \o <<"]", "}">>,
                            visits |-> 0]
             rest == json_loop(heap, self, style, indent, tmp, k + 1)
         IN  [text |-> node \o value.text \o <<"]", "}", ",">> \o rest.text,
              visits |-> 1 + value.visits + rest.visits]

\* json that takes the 'd3' template for a style it does not know
json_default_style(heap, self, style, indent, tmp) ==
    LET first == IF indent = 0 THEN Template(style, TreeRef(self), Root) ELSE <<>>
        loop == json_loop(heap, self, style, indent, tmp, 1)
        all == first \o loop.text
        closed == IF indent = 0 THEN DropLast(all, 1) \o <<"]", "}">>
                  ELSE DropLast(all, 1)
    IN  [err |-> "",
         text |-> IF style # "jit"
                  THEN re_sub(closed, SizeWord \o FormatD(tmp[self]), 1)
                  ELSE closed,
         visits |-> loop.visits]

json(heap, self, style, indent, tmp) ==
    IF style \notin Styles THEN [err |-> "KeyError", text |-> <<>>, visits |-> 0]
    ELSE LET first == IF indent = 0 THEN Template(style, TreeRef(self), Root) ELSE <<>>
             loop == json_loop(heap, self, style, indent, tmp, 1)
             all == first \o loop.text
             closed == IF indent = 0 THEN DropLast(all, 1) \o <<"]", "}">>
                       ELSE DropLast(all, 1)
         IN  [err |-> "",
              text |-> IF style = "d3"
                       THEN re_sub(closed, SizeWord \o FormatD(tmp[self]), 1)
                       ELSE closed,
              visits |-> loop.visits]

\* '\t' * indent
RECURSIVE Tabs(_)
Tabs(indent) == IF indent = 0 THEN <<>> ELSE <<"\t">> \o Tabs(indent - 1)

\* Tree.__repr__
RECURSIVE repr(_, _, _)
RECURSIVE repr_loop(_, _, _, _)
repr_loop(heap, self, indent, k) ==
    IF k > Len(heap[self].branches) THEN [text |-> <<>>, visits |-> 0]
    ELSE LET e == heap[self].branches[k]
             value == IF e.value.t = "tree"
                      THEN repr(heap, e.value.n, indent + 1)
                      ELSE [text |-> <<"\"">> \o e.value.s \o <<"\"">>, visits |-> 0]
             rest == repr_loop(heap, self, indent, k + 1)
         IN  [text |-> Tabs(indent) \o <<"\t", "\"">> \o e.key.s \o <<"\"", " ", ":", " ">>
                           \o value.text \o <<",", "\n">> \o rest.text,
              visits |-> 1 + value.visits + rest.visits]

repr(heap, self, indent) ==
    LET first == IF indent > 0 THEN <<"\n">> \o Tabs(indent) ELSE <<>>
        loop == repr_loop(heap, self, indent, 1)
        string == first \o <<"[", "\"">> \o heap[self].name \o <<"\"", ",", " ", "{", "\n">>
                      \o loop.text
    IN  [err |-> "",
         text |-> DropLast(string, 2) \o <<"\n">> \o Tabs(indent) \o <<"}", "]">>,
         visits |-> loop.visits]

(***************************************************************************)
(* Tree.to_listui_html                                                     *)
(***************************************************************************)
TrTd == <<"<", "t", "r", ">", "<", "t", "d", ">">>
TdTd == <<"<", "/", "t", "d", ">", "<", "t", "d", ">">>
UlOpen == <<"<", "/", "t", "d", ">", "<", "t", "d", ">", "<", "u", "l", ">">>
LiOpen == <<"<", "l", "i", " ", "i", "d", "=", "\"">>
LiMid == <<"\"", ">">>
LiClose == <<"<", "/", "l", "i", ">">>
UlClose == <<"<", "/", "u", "l", ">", "<", "/", "t", "d", ">", "<", "/", "t", "r",
    ">">>
TdTr == <<"<", "/", "t", "d", ">", "<", "/", "t", "r", ">">>
WrapperHead == <<"<", "d", "i", "v", " ", "i", "d", "=", "\"", "s", "h", "o", "w",
    "q", "u", "e", "s", "t", "i", "o", "n", "\"", " ", "c", "l", "a", "s", "s", "=",
    "\"", "a", "n", "s", "w", "e", "r", "s", "\"", ">", "<", "/", "d", "i", "v", ">",
    "<", "t", "a", "b", "l", "e", " ", "i", "d", "=", "\"", "q", "u", "e", "s", "t",
    "i", "o", "n", "s", "\"", ">", "<", "t", "r", ">", "<", "t", "d", ">", "I", "D",
    "<", "/", "t", "d", ">", "<", "t", "d", ">", "Q", "u", "e", "s", "t", "i", "o", "n",
    "s", "<", "/", "t", "d", ">", "<", "t", "d", ">", "A", "n", "s", "w", "e", "r", "s",
    "<", "/", "t", "d", ">", "<", "/", "t", "r", ">">>
WrapperTail == <<"<", "/", "t", "a", "b", "l", "e", ">", "<", "/", "d", "i", "v",
    ">">>

\* the list items that tag every branch with the id of its key
RECURSIVE li_items_key_ids(_, _, _)
li_items_key_ids(heap, self, k) ==
    IF k > Len(heap[self].branches) THEN <<>>
    ELSE LET e == heap[self].branches[k]
         IN  LiOpen \o FormatD(id(e.key)) \o LiMid \o e.key.s \o LiClose
                 \o li_items_key_ids(heap, self, k + 1)

\* the first loop: one list item for each branch, tagged with id(value)
RECURSIVE li_items(_, _, _)
li_items(heap, self, k) ==
    IF k > Len(heap[self].branches) THEN <<>>
    ELSE LET e == heap[self].branches[k]
         IN  LiOpen \o FormatD(id(e.value)) \o LiMid \o e.key.s \o LiClose
                 \o li_items(heap, self, k + 1)

\* the second loop: the rows of the subtrees and of the leaves; then the
\* whole method, with the wrapper at level 0
RECURSIVE to_listui_html(_, _, _)
RECURSIVE listui_rows(_, _, _, _)
listui_rows(heap, self, level, k) ==
    IF k > Len(heap[self].branches) THEN [text |-> <<>>, visits |-> 0]
    ELSE LET e == heap[self].branches[k]
             value == IF e.value.t = "tree"
                      THEN to_listui_html(heap, e.value.n, level + 1)
                      ELSE [text |-> TrTd \o FormatD(id(e.value)) \o TdTd \o e.value.s
                                         \o TdTd \o e.value.s \o TdTr,
                            visits |-> 0]
             rest == listui_rows(heap, self, level, k + 1)
         IN  [text |-> value.text \o rest.text,
              visits |-> 1 + value.visits + rest.visits]

to_listui_html(heap, self, level) ==
    LET rows == listui_rows(heap, self, level, 1)
        string == TrTd \o FormatD(id(TreeRef(self))) \o TdTd \o heap[self].name
                      \o UlOpen \o li_items(heap, self, 1) \o UlClose \o rows.text
    IN  [err |-> "",
         text |-> IF level = 0 THEN WrapperHead \o string \o WrapperTail ELSE string,
         visits |-> Len(heap[self].branches) + rows.visits]

(***************************************************************************)
(* The heap after a call of a serializer.  json, __repr__ and              *)
(* to_listui_html read name and __branches and bind the locals key, value, *)
(* json and string; they assign to no attribute and to no dict entry.      *)
(***************************************************************************)
\* a json whose loop stores each value it has built back under its key
json_heap_stores_value(heap, self, style, tmp) ==
    LET d == heap[self].branches
        built(e) == IF e.value.t = "tree"
                    THEN StrObj(json(heap, e.value.n, style, 1, tmp).text, 0)
                    ELSE e.value
    IN  IF style \notin Styles THEN heap
        ELSE [heap EXCEPT ![self].branches =
                 [k \in 1..Len(d) |-> [key |-> d[k].key, value |-> built(d[k])]]]

json_heap(heap, self, style, tmp) == heap

repr_heap(heap, self) == heap

to_listui_html_heap(heap, self) == heap

(***************************************************************************)
(* The state.                                                              *)
(***************************************************************************)
VARIABLES
    lines,   \* fh.readlines(), the input of parse_rmtree
    i,       \* the number of lines the loop has processed
    depth,   \* parse_rmtree's depth
    tree,    \* parse_rmtree's tree, the working pointer
    nodes,   \* the heap of Tree objects
    pc,      \* "loop", "raised", "returned": parse_rmtree; "caller": no parse
    err,     \* the exception parse_rmtree raised, "" if none
    result,  \* what parse_rmtree returned, None before
    call,    \* the last call of a Tree method by the caller
    ret,     \* what that call returned or raised
    nsets    \* the number of __setitem__ calls the caller has made

vars == <<lines, i, depth, tree, nodes, pc, err, result, call, ret, nsets>>

NoCall == [op |-> "", self |-> 0, key |-> None, value |-> None, style |-> ""]
NoRet == [err |-> "", text |-> <<>>, visits |-> 0]

\* the locals of parse_rmtree and the heap, as parse_line takes them
ParserState ==
    [i |-> i, depth |-> depth, tree |-> tree, heap |-> nodes, pc |-> pc,
     err |-> err, result |-> result]

SetParserState(q) ==
    /\ i' = q.i
    /\ depth' = q.depth
    /\ tree' = q.tree
    /\ nodes' = q.heap
    /\ pc' = q.pc
    /\ err' = q.err
    /\ result' = q.result

\* tree = Tree(); depth = 0, before the first line is read; or a caller that
\* holds a Tree() of its own and never parses
Init ==
    /\ i = 0
    /\ depth = 0
    /\ tree = TreeRef(1)
    /\ nodes = <<NewTree>>
    /\ err = ""
    /\ result = None
    /\ call = NoCall
    /\ ret = NoRet
    /\ nsets = 0
    /\ \/ pc = "loop" /\ lines \in Inputs
       \/ pc = "caller" /\ lines = <<>>

\* one iteration of the for loop
ParseLine ==
    /\ pc = "loop"
    /\ i < Len(lines)
    /\ \E pos \in 1..(i + 1) :
          SetParserState(parse_line(ParserState, lines[i + 1], i + 1, pos))
    /\ UNCHANGED <<lines, call, ret, nsets>>

\* the loop is over
ParseReturn ==
    /\ pc = "loop"
    /\ i = Len(lines)
    /\ SetParserState(parse_return(ParserState))
    /\ UNCHANGED <<lines, call, ret, nsets>>

\* the string objects the caller holds: keys and leaves.  The string "a" is
\* one object, used as a key and as a leaf.
CallerKeys == {StrObj(<<"a">>, 1), StrObj(<<"b">>, 2)}
CallerValues == {StrObj(<<"y">>, 3), StrObj(<<"a">>, 1), IntObj(7), None}

\* the addresses a string that lives only during one call can have: two that
\* no Tree object (2n, n <= Len(nodes)) and no string object (2o + 1, o at
\* most 2 Len(lines) in a parse and at most 3 for the caller's strings) has
TempAddrs == {2 * (Len(nodes) + 2 * Len(lines) + 3) + 2,
              2 * (Len(nodes) + 2 * Len(lines) + 3) + 3}

Low(S) == CHOOSE x \in S : \A y \in S : x <= y

\* the call of json on Tree object n leaves a "children": [] for its re.sub:
\* a branch of n holds a leaf, or a Tree without branches
ShowsSize(heap, n) ==
    \E k \in 1..Len(heap[n].branches) :
        LET v == heap[n].branches[k].value
        IN  v.t = "str" \/ (v.t = "tree" /\ heap[v.n].branches = <<>>)

\* id(json) in each call of one json(style): only 'd3' evaluates it, and its
\* value shows only in the output of a call for which ShowsSize holds
TempIds(style) ==
    IF style = "d3"
    THEN {f \in [1..Len(nodes) -> TempAddrs] :
             \A n \in 1..Len(nodes) : ~ShowsSize(nodes, n) => f[n] = Low(TempAddrs)}
    ELSE {[n \in 1..Len(nodes) |-> 0]}

\* the Tree the caller holds: the one parse_rmtree returned, or its own
Held == IF pc = "returned" THEN result.n ELSE 1

\* the caller sets a branch: self[key] = value, value a string, a number or None
SetItem ==
    /\ pc = "caller"
    /\ nsets < MaxSets
    /\ \E self \in 1..Len(nodes), key \in CallerKeys, value \in CallerValues,
          pos \in 1..(nsets + 1) :
          LET r == setitem(nodes, self, key, value, pos)
          IN  /\ nodes' = r.heap
              /\ call' = [NoCall EXCEPT !.op = "setitem", !.self = self,
                                        !.key = key, !.value = value]
              /\ ret' = [NoRet EXCEPT !.err = r.err]
    /\ nsets' = nsets + 1
    /\ UNCHANGED <<lines, i, depth, tree, pc, err, result>>

\* the caller sets a branch to a new Tree: self[key] = Tree()
SetItemTree ==
    /\ pc = "caller"
    /\ nsets < MaxSets
    /\ \E self \in 1..Len(nodes), key \in CallerKeys, pos \in 1..(nsets + 1) :
          LET value == TreeRef(Len(nodes) + 1)
              r == setitem(Append(nodes, NewTree), self, key, value, pos)
          IN  /\ nodes' = r.heap
              /\ call' = [NoCall EXCEPT !.op = "setitem", !.self = self,
                                        !.key = key, !.value = value]
              /\ ret' = [NoRet EXCEPT !.err = r.err]
    /\ nsets' = nsets + 1
    /\ UNCHANGED <<lines, i, depth, tree, pc, err, result>>

\* the caller serializes the Tree it holds with json(style)
Json ==
    /\ pc \in {"returned", "caller"}
    /\ \E style \in Styles \cup {"foo"} :
       \E tmp \in TempIds(style) :
          /\ call' = [NoCall EXCEPT !.op = "json", !.self = Held, !.style = style]
          /\ ret' = json(nodes, Held, style, 0, tmp)
          /\ nodes' = json_heap(nodes, Held, style, tmp)
    /\ UNCHANGED <<lines, i, depth, tree, pc, err, result, nsets>>

\* the caller serializes the Tree it holds with repr() or str()
Repr ==
    /\ pc \in {"returned", "caller"}
    /\ call' = [NoCall EXCEPT !.op = "repr", !.self = Held]
    /\ ret' = repr(nodes, Held, 0)
    /\ nodes' = repr_heap(nodes, Held)
    /\ UNCHANGED <<lines, i, depth, tree, pc, err, result, nsets>>

\* the caller serializes the Tree it holds with to_listui_html()
ToListUI ==
    /\ pc \in {"returned", "caller"}
    /\ call' = [NoCall EXCEPT !.op = "to_listui_html", !.self = Held]
    /\ ret' = to_listui_html(nodes, Held, 0)
    /\ nodes' = to_listui_html_heap(nodes, Held)
    /\ UNCHANGED <<lines, i, depth, tree, pc, err, result, nsets>>

Next ==
    ParseLine \/ ParseReturn \/ SetItem \/ SetItemTree \/ Json \/ Repr \/ ToListUI

Spec == Init /\ [][Next]_vars

(***************************************************************************)
(* What the properties speak of.                                           *)
(***************************************************************************)
Match(line) == re_line(Strip(line))

AllMatch(ls) == \A k \in 1..Len(ls) : Match(ls[k]).ok

\* the place of the first line that re_line does not match, 0 if all match
FirstMalformed(ls) ==
    LET bad == {k \in 1..Len(ls) : ~Match(ls[k]).ok}
    IN  IF bad = {} THEN 0 ELSE Low(bad)

\* the well-formed inputs: every line matches, the first line has indent 0,
\* the line after a subtree line of indent d has indent d + 1 and the line
\* after a leaf line of indent d has an indent of at most d
WellFormed(ls) ==
    /\ AllMatch(ls)
    /\ ls # <<>> => Level(Match(ls[1])) = 0
    /\ \A k \in 1..(Len(ls) - 1) :
          IF Match(ls[k]).hasLeaf
          THEN Level(Match(ls[k + 1])) <= Level(Match(ls[k]))
          ELSE Level(Match(ls[k + 1])) = Level(Match(ls[k])) + 1

\* the indent never grows by more than one from a line to the next
StepsOfOne(ls) ==
    \A k \in 1..(Len(ls) - 1) : Level(Match(ls[k + 1])) <= Level(Match(ls[k])) + 1

\* the largest indent of the lines, 0 if there is no line
MaxLevel(ls) ==
    IF ls = <<>> THEN 0
    ELSE LET levels == {Level(Match(ls[k])) : k \in 1..Len(ls)}
         IN  CHOOSE x \in levels : \A y \in levels : y <= x

\* the Tree objects under n, n included, each with its depth when n has depth d
RECURSIVE Below(_, _, _)
Below(heap, n, d) ==
    {<<n, d>>} \cup
    UNION {Below(heap, heap[n].branches[k].value.n, d + 1) :
             k \in {j \in 1..Len(heap[n].branches) : heap[n].branches[j].value.t = "tree"}}

MaxDepth(heap, n) ==
    LET depths == {nd[2] : nd \in Below(heap, n, 0)}
    IN  CHOOSE x \in depths : \A y \in depths : y <= x

\* where k steps along the parent links lead from v
RECURSIVE Up(_, _, _)
Up(heap, v, k) ==
    IF k = 0 THEN v
    ELSE IF v.t # "tree" THEN None
    ELSE Up(heap, heap[v.n].parent, k - 1)

\* the working node of the step that is about to process line i + 1
NextMatch == Match(lines[i + 1])
NextWorking == WorkingNode(ParserState, NextMatch)

(***************************************************************************)
(* C1.  For a well-formed input, the node parse_rmtree returns has no      *)
(* parent, and every other node under it reaches it along the parent links *)
(* in exactly as many steps as its depth, and in no fewer.                 *)
(***************************************************************************)
C1_ParentChains ==
    (pc = "returned" /\ WellFormed(lines)) =>
        /\ result.t = "tree"
        /\ nodes[result.n].parent = None
        /\ \A nd \in Below(nodes, result.n, 0) :
              nd[1] # result.n =>
                 /\ Up(nodes, TreeRef(nd[1]), nd[2]) = result
                 /\ \A j \in 0..(nd[2] - 1) : Up(nodes, TreeRef(nd[1]), j) # result

\* a well-formed input has been parsed into a tree with a node of depth 2
C1_Witness ==
    /\ pc = "returned"
    /\ WellFormed(lines)
    /\ \E nd \in Below(nodes, result.n, 0) : nd[2] = 2

(***************************************************************************)
(* C2.  When a line does not match, the parse ends there with ValueError:  *)
(* no line at or after the first such line is ever processed, nothing is   *)
(* returned, and once the lines before it are done the call has raised     *)
(* ValueError or is about to read that line.                               *)
(***************************************************************************)
C2_MalformedAborts ==
    FirstMalformed(lines) > 0 =>
        /\ i < FirstMalformed(lines)
        /\ pc # "returned"
        /\ result = None
        /\ (i = FirstMalformed(lines) - 1 /\ pc # "loop") =>
              (pc = "raised" /\ err = "ValueError")

\* a malformed line after a valid one and before another line has raised
C2_Witness ==
    /\ pc = "raised"
    /\ err = "ValueError"
    /\ i >= 1
    /\ i + 1 < Len(lines)

(***************************************************************************)
(* C3.  The input of the two lines "root = a {" and "|   root = b: no {}". *)
(***************************************************************************)
ExampleInput == <<LineEx1, LineEx2>>

\* a root "root" with one branch, labelled label, to a node "root" with one
\* branch "b" that holds the leaf "no"
ExampleShape(label) ==
    /\ result.t = "tree"
    /\ nodes[result.n].name = <<"r", "o", "o", "t">>
    /\ Len(nodes[result.n].branches) = 1
    /\ nodes[result.n].branches[1].key.s = label
    /\ nodes[result.n].branches[1].value.t = "tree"
    /\ LET c == nodes[result.n].branches[1].value.n
       IN  /\ nodes[c].name = <<"r", "o", "o", "t">>
           /\ Len(nodes[c].branches) = 1
           /\ nodes[c].branches[1].key.s = <<"b">>
           /\ nodes[c].branches[1].value.t = "str"
           /\ nodes[c].branches[1].value.s = <<"n", "o">>

\* C3 as stated: the branch of the root is labelled "a"
C3_Original ==
    (pc = "returned" /\ lines = ExampleInput) => ExampleShape(<<"a">>)

\* C3, amended: the branch of the root is labelled "a {", for the branch
\* group takes every character up to the end of a line without a colon
C3_ExampleTree ==
    (pc = "returned" /\ lines = ExampleInput) => ExampleShape(<<"a", " ", "{">>)

C3_Witness == pc = "returned" /\ lines = ExampleInput

AllAttached(heap, n) == {nd[1] : nd \in Below(heap, n, 0)} = 1..Len(heap)

C5_ReusesChild ==
    [][(/\ pc = "loop"
        /\ i < Len(lines)
        /\ i' = i + 1
        /\ NextMatch.ok
        /\ ~NextMatch.hasLeaf) =>
          LET w == NextWorking.tree.n
              label == StrObj(NextMatch.branch, 0)
              old == getitem(nodes, w, label)
          IN  /\ old.t = "tree" =>
                    /\ Len(nodes') = Len(nodes)
                    /\ nodes'[old.n] = nodes[old.n]
                    /\ tree' = old
              /\ Len(nodes') > Len(nodes) =>
                    /\ ~contains(nodes, w, label)
                    /\ Len(nodes') = Len(nodes) + 1
                    /\ nodes'[Len(nodes')] = [NewTree EXCEPT !.parent = TreeRef(w)]
                    /\ getitem(nodes', w, label) = TreeRef(Len(nodes'))
                    /\ tree' = TreeRef(Len(nodes'))
              /\ (old = None) => Len(nodes') = Len(nodes) + 1
      ]_vars

\* the third line names the branch "a" of the root again, which holds the
\* child that the first line made and the second line filled
C5_Witness ==
    /\ lines = <<LineSub0, LineEx2, LineSub0>>
    /\ i = 3
    /\ Len(nodes) = 2
    /\ tree = TreeRef(2)
    /\ nodes[2].branches # <<>>

(***************************************************************************)
(* C6.  What parse_rmtree returns is the Tree made before the loop, where- *)
(* ever the working pointer ends; for no lines it has the empty name and   *)
(* no branches.                                                            *)
(***************************************************************************)
C6_ReturnsFirstTree ==
    pc = "returned" =>
        /\ result = TreeRef(1)
        /\ lines = <<>> => (nodes[1].name = <<>> /\ nodes[1].branches = <<>>)

\* the input ended with a subtree line: the working pointer is on a child
C6_Witness ==
    /\ pc = "returned"
    /\ lines # <<>>
    /\ ~Match(lines[Len(lines)]).hasLeaf
    /\ tree # TreeRef(1)

(***************************************************************************)
(* C7.  Two serializations in a row of the same tree, by repr or by        *)
(* json('d3'), give the same string.                                       *)
(***************************************************************************)
C7_SameOutputTwice ==
    [][(/\ call.op \in {"repr", "json"}
        /\ call.op = "json" => call.style = "d3"
        /\ call' = call
        /\ nodes' = nodes) => ret'.text = ret.text]_vars

(***************************************************************************)
(* C8.  json with a style other than 'jit' and 'd3' raises before it       *)
(* visits a branch and gives no string.                                    *)
(***************************************************************************)
C8_UnknownStyle ==
    (call.op = "json" /\ call.style \notin {"jit", "d3"}) =>
        /\ ret.err = "KeyError"
        /\ ret.visits = 0
        /\ ret.text = <<>>

\* json('foo') has been called on a tree that has branches
C8_Witness ==
    /\ call.op = "json"
    /\ call.style = "foo"
    /\ nodes[call.self].branches # <<>>

(***************************************************************************)
(* C9.  __setitem__ with a value that is neither a Tree nor a string       *)
(* raises TypeError and leaves every Tree as it was: branches and parents. *)
(***************************************************************************)
C9_BadValueRejected ==
    [][(/\ nsets' = nsets + 1
        /\ call'.value.t \notin {"tree", "str"}) =>
          (ret'.err = "TypeError" /\ nodes' = nodes)]_vars

\* a number was given for a label that already holds a branch
C9_Witness ==
    /\ call.op = "setitem"
    /\ call.value.t = "int"
    /\ ret.err = "TypeError"
    /\ contains(nodes, call.self, call.key)

(***************************************************************************)
(* C10.  In the output of json('jit') every node has an id and no two      *)
(* nodes have the same id.                                                 *)
(***************************************************************************)
IsDigit(c) == \E d \in 1..10 : Digits[d] = c

\* the digits that stand at position p of s
RECURSIVE DigitsAt(_, _)
DigitsAt(s, p) ==
    IF p <= Len(s) /\ IsDigit(s[p]) THEN <<s[p]>> \o DigitsAt(s, p + 1) ELSE <<>>

\* the places of the output where a node's id is written, and where a name is
IdPlaces(s) == {p \in 1..Len(s) : HasAt(s, p, TplJit1)}
NamePlaces(s) == {p \in 1..Len(s) : HasAt(s, p, <<"\"", "n", "a", "m", "e", "\"", ":">>)}

\* C10: every node of the output of json('jit') has an id, and the ids of
\* two nodes differ
C10_UniqueIds ==
    (call.op = "json" /\ call.style = "jit" /\ ret.err = "") =>
        /\ Cardinality(IdPlaces(ret.text)) = Cardinality(NamePlaces(ret.text))
        /\ \A p, q \in IdPlaces(ret.text) :
              p # q => DigitsAt(ret.text, p + Len(TplJit1)) # DigitsAt(ret.text, q + Len(TplJit1))

\* the places of s that hold the character c outside of the quoted strings:
\* an even number of quotes stands before them
Outside(s, c) ==
    {p \in 1..Len(s) :
        /\ s[p] = c
        /\ Cardinality({q \in 1..(p - 1) : s[q] = "\""}) % 2 = 0}

\* the Tree objects under n, n included
NodesUnder(heap, n) == {nd[1] : nd \in Below(heap, n, 0)}

\* C11: the output of repr for a tree that the parser returned has the shape
\* [name, {label: value, ...}] at every node: outside of the quoted strings
\* it holds one "[", one "{", one "}" and one "]" for each node of the tree,
\* so that the nodes can be counted from the output
C11_ReprShape ==
    (pc = "returned" /\ call.op = "repr" /\ ret.err = "") =>
        LET n == Cardinality(NodesUnder(nodes, Held))
        IN  /\ Cardinality(Outside(ret.text, "[")) = n
            /\ Cardinality(Outside(ret.text, "{")) = n
            /\ Cardinality(Outside(ret.text, "}")) = n
            /\ Cardinality(Outside(ret.text, "]")) = n

\* a step in which the caller runs one of the serializers
SerializerStep == Json \/ Repr \/ ToListUI

\* C12: a call of json (either style), of __repr__ or of to_listui_html
\* leaves the tree as it was: the name, the branches (labels, order and
\* values) and the parent of every node are the same after the call
C12_SerializersReadOnly ==
    [][SerializerStep =>
          /\ Len(nodes') = Len(nodes)
          /\ \A n \in 1..Len(nodes) :
                /\ nodes'[n].name = nodes[n].name
                /\ nodes'[n].branches = nodes[n].branches
                /\ nodes'[n].parent = nodes[n].parent]_vars

\* a serializer has run on a tree that has a child node, which holds a leaf
C12_Witness ==
    /\ call.op \in {"json", "repr", "to_listui_html"}
    /\ call.style \in {"", "d3", "jit"}
    /\ ret.err = ""
    /\ \E k \in 1..Len(nodes[call.self].branches) :
          LET v == nodes[call.self].branches[k].value
          IN  /\ v.t = "tree"
              /\ nodes[v.n].parent = TreeRef(call.self)
              /\ nodes[v.n].branches # <<>>

\* the k-th smallest element of a set of numbers
Nth(S, k) == CHOOSE p \in S : Cardinality({q \in S : q < p}) = k - 1

\* the number of rows that to_listui_html writes for the value v: one for a
\* leaf, and for a Tree one for itself and those of its branches
RECURSIVE RowCount(_, _)
RECURSIVE RowCountFrom(_, _, _)
RowCountFrom(heap, n, k) ==
    IF k > Len(heap[n].branches) THEN 0
    ELSE RowCount(heap, heap[n].branches[k].value) + RowCountFrom(heap, n, k + 1)

RowCount(heap, v) == IF v.t = "tree" THEN 1 + RowCountFrom(heap, v.n, 1) ELSE 1

\* for the node n, whose row is the r-th of the table, the rows that its list
\* items and those of the nodes under it point to, in the order of the output:
\* the row of the k-th branch comes after the rows of the branches before it
RECURSIVE LiRows(_, _, _)
RECURSIVE LiRowsBelow(_, _, _, _)
LiRowsBelow(heap, n, r, k) ==
    IF k > Len(heap[n].branches) THEN <<>>
    ELSE LET v == heap[n].branches[k].value
             row == r + 1 + (RowCountFrom(heap, n, 1) - RowCountFrom(heap, n, k))
         IN  (IF v.t = "tree" THEN LiRows(heap, v.n, row) ELSE <<>>)
                 \o LiRowsBelow(heap, n, r, k + 1)

LiRows(heap, n, r) ==
    [k \in 1..Len(heap[n].branches) |->
        r + 1 + (RowCountFrom(heap, n, 1) - RowCountFrom(heap, n, k))]
        \o LiRowsBelow(heap, n, r, 1)

\* the places of the output where a row starts with an id, where a list item
\* starts, where a list of branches starts and where the table starts
RowPlaces(s) == {p \in 1..Len(s) : HasAt(s, p, TrTd) /\ DigitsAt(s, p + Len(TrTd)) # <<>>}
LiPlaces(s) == {p \in 1..Len(s) : HasAt(s, p, LiOpen)}
UlPlaces(s) == {p \in 1..Len(s) : HasAt(s, p, <<"<", "u", "l", ">">>)}
TablePlaces(s) == {p \in 1..Len(s) : HasAt(s, p, <<"<", "t", "a", "b", "l", "e">>)}

\* C13: in the output of to_listui_html there is one row for each node and
\* one for each leaf, the id of every list item is the id in the first column
\* of the row written for the value of its branch, and the table wrapper is
\* written once, around the whole output
C13_ListUIConsistent ==
    (call.op = "to_listui_html" /\ ret.err = "") =>
        LET s == ret.text
            target == LiRows(nodes, call.self, 1)
        IN  /\ Cardinality(RowPlaces(s)) = RowCount(nodes, TreeRef(call.self))
            /\ Cardinality(UlPlaces(s)) = Cardinality(NodesUnder(nodes, call.self))
            /\ Cardinality(LiPlaces(s)) = Len(target)
            /\ \A j \in 1..Len(target) :
                  DigitsAt(s, Nth(LiPlaces(s), j) + Len(LiOpen))
                      = DigitsAt(s, Nth(RowPlaces(s), target[j]) + Len(TrTd))
            /\ Cardinality(TablePlaces(s)) = 1
            /\ SubSeq(s, 1, Len(WrapperHead)) = WrapperHead
            /\ SubSeq(s, Len(s) - Len(WrapperTail) + 1, Len(s)) = WrapperTail

\* to_listui_html has run on a tree whose root has a child node and a leaf,
\* and the child node has a leaf
C13_Witness ==
    /\ call.op = "to_listui_html"
    /\ ret.err = ""
    /\ \E j, k \in 1..Len(nodes[call.self].branches) :
          LET v == nodes[call.self].branches[j].value
              w == nodes[call.self].branches[k].value
          IN  /\ v.t = "tree"
              /\ w.t = "str"
              /\ \E l \in 1..Len(nodes[v.n].branches) : nodes[v.n].branches[l].value.t = "str"

\* the depth of the Tree object n: the number of parent links up to the root
RECURSIVE DepthOf(_, _)
DepthOf(heap, n) ==
    IF heap[n].parent.t # "tree" THEN 0 ELSE 1 + DepthOf(heap, heap[n].parent.n)

\* the line that the loop is about to process matches, and its indent asks
\* the working node to move up more levels than it has above it
AscentPastRoot ==
    /\ i < Len(lines)
    /\ NextMatch.ok
    /\ tree.t = "tree"
    /\ Level(NextMatch) < depth
    /\ depth - Level(NextMatch) > DepthOf(nodes, tree.n)

\* C14: when the indent of a line asks for a move up past the root,
\* parse_rmtree raises on that line and returns no tree: the working pointer
\* is not kept at the root, and once raised the call stays raised
C14_AscentPastRootRaises ==
    [][/\ (pc = "loop" /\ AscentPastRoot) =>
              /\ pc' = "raised"
              /\ err' = "AttributeError"
              /\ result' = None
              /\ nodes' = nodes
       /\ pc = "raised" => (pc' = "raised" /\ result' = None)]_vars

\* parse_rmtree has raised on a line that asked for a move up past the root,
\* after it had processed a line
C14_Witness ==
    /\ pc = "raised"
    /\ err = "AttributeError"
    /\ result = None
    /\ i >= 1
    /\ AscentPastRoot

\* C15: for a well-formed input, every line that the loop processes is
\* applied to a node whose depth is the indent of the line: the only nodes
\* that the step changes are at that depth, one of them gets the name and
\* the branch of the line, and a node that the line creates is its child
C15_WorkingDepthIsIndent ==
    [][(/\ pc = "loop"
        /\ WellFormed(lines)
        /\ i < Len(lines)
        /\ i' = i + 1) =>
          LET m == NextMatch
              label == StrObj(m.branch, 0)
          IN  /\ depth' = Level(m)
              /\ \A n \in 1..Len(nodes) :
                    nodes'[n] # nodes[n] => DepthOf(nodes, n) = Level(m)
              /\ \E w \in 1..Len(nodes) :
                    /\ DepthOf(nodes, w) = Level(m)
                    /\ nodes'[w].name = m.node
                    /\ contains(nodes', w, label)
                    /\ m.hasLeaf =>
                          /\ getitem(nodes', w, label).t = "str"
                          /\ getitem(nodes', w, label).s = m.leaf
                          /\ tree' = TreeRef(w)
                    /\ ~m.hasLeaf =>
                          /\ tree' = getitem(nodes', w, label)
                          /\ Len(nodes') > Len(nodes) =>
                                /\ tree' = TreeRef(Len(nodes'))
                                /\ DepthOf(nodes', Len(nodes')) = Level(m) + 1
      ]_vars

\* the third line of a well-formed input has been applied after a move up
\* from the node that the first line made and the second line filled
C15_Witness ==
    /\ pc = "loop"
    /\ WellFormed(lines)
    /\ i = 3
    /\ Level(Match(lines[3])) < Level(Match(lines[2]))
    /\ Len(nodes) = 2
    /\ nodes[2].branches # <<>>
    /\ tree = TreeRef(1)

\* C16: when all lines match, after every line that the loop has processed
\* without raising the working pointer is a Tree, also after a subtree line
\* whose label holds a leaf on the working node
C16_WorkingPointerIsTree ==
    (pc = "loop" /\ AllMatch(lines)) => tree.t = "tree"

====
